---- MODULE Spec2Model ----
(***************************************************************************)
(* Model of scripts/formatchecker/varlen_fmt.py: the `varlen-fmt` format   *)
(* checker.  check(fmt_list) scans a list of format descriptors (dicts)    *)
(* and raises jsonschema's FormatError when a descriptor whose `size`      *)
(* compares equal to 0 is not the last one of the list.                    *)
(*                                                                         *)
(* Python objects are modelled by value: a Python value is a record        *)
(* [type, val], a dict is the sequence of its items in insertion order,    *)
(* a list is a sequence.  The list objects the callers own live in `lists` *)
(* (a small heap), and every call of check has its own frame: the          *)
(* components pc, arg, it, i, fmt, size and result at the caller's index.  *)
(***************************************************************************)
EXTENDS Integers, Sequences, FiniteSets, TLC

\* Bounds of the model.
MaxLen == 3        \* longest format list a single caller builds (Spec)
ConcMaxLen == 2    \* longest format list in the concurrent runs (ConcSpec)
NumCallers == 2    \* callers (threads) that may be inside check at once

Callers == 1 .. NumCallers
ListIds == {"A", "B"}

FORMAT_NAME == "varlen-fmt"

---------------------------------------------------------------------------
\* Python values.

PyInt(n) == [type |-> "int", val |-> n]
PyFloat(n) == [type |-> "float", val |-> n]      \* the float n.0
PyBool(b) == [type |-> "bool", val |-> IF b THEN 1 ELSE 0]
PyStr(s) == [type |-> "str", val |-> s]
PyNone == [type |-> "NoneType", val |-> 0]

\* A local name that has not been assigned yet.
Unbound == [type |-> "unbound"]

IsNumber(a) == a.type \in {"int", "float", "bool"}

\* a == b in Python: int, float and bool (a subclass of int) compare by
\* numeric value; a str equals only an equal str; None equals only None.
PyEq(a, b) ==
  IF IsNumber(a) /\ IsNumber(b)
  THEN a.val = b.val
  ELSE a.type = b.type /\ a.val = b.val

\* repr(v)
PyRepr(v) ==
  CASE v.type = "int" -> ToString(v.val)
    [] v.type = "float" -> ToString(v.val) \o ".0"
    [] v.type = "bool" -> (IF v.val = 1 THEN "True" ELSE "False")
    [] v.type = "NoneType" -> "None"
    [] v.type = "str" -> "'" \o v.val \o "'"

\* A dict is the sequence of its items [key, value], keys distinct.
HasKey(d, k) == \E j \in 1 .. Len(d) : d[j].key = k

\* d[k], defined when k is a key of d (otherwise Python raises KeyError).
GetItem(d, k) == d[CHOOSE j \in 1 .. Len(d) : d[j].key = k].value

RECURSIVE ItemsRepr(_, _)
ItemsRepr(d, j) ==
  IF j > Len(d) THEN ""
  ELSE (IF j > 1 THEN ", " ELSE "")
       \o "'" \o d[j].key \o "': " \o PyRepr(d[j].value)
       \o ItemsRepr(d, j + 1)

\* str(d) of a dict, what '%s' % d formats.
DictStr(d) == "{" \o ItemsRepr(d, 1) \o "}"

\* ErrorMessage with the bug of formatting the size (% fmt.get('size'))
\* rather than the descriptor (% fmt).
ErrorMessageSizeOnly(d) ==
  "    variable-length (size 0) property must be the last format\n"
  \o "    specified but is not\n"
  \o "    fmt: "
  \o PyRepr(IF HasKey(d, "size") THEN GetItem(d, "size") ELSE PyNone)

\* The text the FormatError is built with: the literal of lines 26-29
\* (after the backslash-newline) % fmt.
ErrorMessage(d) ==
  "    variable-length (size 0) property must be the last format\n"
  \o "    specified but is not\n"
  \o "    fmt: " \o DictStr(d)

FormatError(d) == [type |-> "FormatError", message |-> ErrorMessage(d)]

\* How a call ends.
NoResult == [kind |-> "none"]
Returned(v) == [kind |-> "return", value |-> v]
Raised(e) == [kind |-> "raise", exc |-> e]

---------------------------------------------------------------------------
\* The inputs.

SizeValues ==
  {PyInt(0), PyInt(4), PyFloat(0), PyBool(FALSE), PyNone, PyStr("")}

SizeOnly(v) == << [key |-> "size", value |-> v] >>
NameOnly == << [key |-> "name", value |-> PyStr("a")] >>
SizeAndName(v) ==
  << [key |-> "size", value |-> v], [key |-> "name", value |-> PyStr("a")] >>

Descriptors ==
  {NameOnly, SizeAndName(PyInt(0))} \cup {SizeOnly(v) : v \in SizeValues}

ConcDescriptors == {NameOnly, SizeOnly(PyInt(0))}

ListsUpTo(S, n) == UNION {[1 .. m -> S] : m \in 0 .. n}

FormatLists == ListsUpTo(Descriptors, MaxLen)
ConcLists == ListsUpTo(ConcDescriptors, ConcMaxLen)

---------------------------------------------------------------------------
\* check(fmt_list) as a function of the list: the loop of lines 18-29 from
\* index j (0-based) on, then the return of line 31.

RECURSIVE scan(_, _)
scan(fmt_list, j) ==
  IF j >= Len(fmt_list) THEN Returned(TRUE)
  ELSE LET f == fmt_list[j + 1] IN
       IF ~HasKey(f, "size") THEN scan(fmt_list, j + 1)
       ELSE IF PyEq(GetItem(f, "size"), PyInt(0)) /\ j # Len(fmt_list) - 1
            THEN Raised(FormatError(f))
            ELSE scan(fmt_list, j + 1)

check(fmt_list) == scan(fmt_list, 0)

---------------------------------------------------------------------------
VARIABLES
  lists,     \* lists[l]: the format list object l, owned by the callers
  pc,        \* pc[c]: where caller c is: "idle", inside check, or "done"
  arg,       \* arg[c]: the list object bound to fmt_list in c's call
  it,        \* it[c]: the position of the list iterator under enumerate
  i,         \* i[c]: local i
  fmt,       \* fmt[c]: local fmt
  size,      \* size[c]: local size
  result,    \* result[c]: how c's call ended
  examined,  \* examined[c]: the indices whose descriptor the call has read
  entry,     \* entry[c]: the value of lists when c's call began
  prev       \* prev[c]: the last call c has completed

vars == <<lists, pc, arg, it, i, fmt, size, result, examined, entry, prev>>

NoCall == [kind |-> "none"]

Init ==
  /\ lists = [l \in ListIds |-> << >>]
  /\ pc = [c \in Callers |-> "idle"]
  /\ arg = [c \in Callers |-> "A"]
  /\ it = [c \in Callers |-> 0]
  /\ i = [c \in Callers |-> Unbound]
  /\ fmt = [c \in Callers |-> Unbound]
  /\ size = [c \in Callers |-> Unbound]
  /\ result = [c \in Callers |-> NoResult]
  /\ examined = [c \in Callers |-> << >>]
  /\ entry = [c \in Callers |-> lists]
  /\ prev = [c \in Callers |-> NoCall]

\* The caller appends a descriptor to one of its lists, between calls.
AppendFmt(l, d) ==
  /\ \A c \in Callers : pc[c] = "idle"
  /\ Len(lists[l]) < MaxLen
  /\ lists' = [lists EXCEPT ![l] = Append(@, d)]
  /\ UNCHANGED <<pc, arg, it, i, fmt, size, result, examined, entry, prev>>

\* Call with the bug of an iteration position that outlives the call (the
\* input consumed as a one-shot iterator): `it` is not reset.
CallKeepIterator(c, l) ==
  /\ pc[c] = "idle"
  /\ pc' = [pc EXCEPT ![c] = "for"]
  /\ arg' = [arg EXCEPT ![c] = l]
  /\ i' = [i EXCEPT ![c] = Unbound]
  /\ fmt' = [fmt EXCEPT ![c] = Unbound]
  /\ size' = [size EXCEPT ![c] = Unbound]
  /\ result' = [result EXCEPT ![c] = NoResult]
  /\ examined' = [examined EXCEPT ![c] = << >>]
  /\ entry' = [entry EXCEPT ![c] = lists]
  /\ UNCHANGED <<lists, prev, it>>

\* Caller c calls check(lists[l]): a new frame, no local assigned yet.
Call(c, l) ==
  /\ pc[c] = "idle"
  /\ pc' = [pc EXCEPT ![c] = "for"]
  /\ arg' = [arg EXCEPT ![c] = l]
  /\ it' = [it EXCEPT ![c] = 0]
  /\ i' = [i EXCEPT ![c] = Unbound]
  /\ fmt' = [fmt EXCEPT ![c] = Unbound]
  /\ size' = [size EXCEPT ![c] = Unbound]
  /\ result' = [result EXCEPT ![c] = NoResult]
  /\ examined' = [examined EXCEPT ![c] = << >>]
  /\ entry' = [entry EXCEPT ![c] = lists]
  /\ UNCHANGED <<lists, prev>>

\* ForNext with the bug of consuming the list while scanning it
\* (fmt = fmt_list.pop(0)).
ForNextPop(c) ==
  /\ pc[c] = "for"
  /\ IF Len(lists[arg[c]]) > 0
     THEN /\ i' = [i EXCEPT ![c] = it[c]]
          /\ fmt' = [fmt EXCEPT ![c] = Head(lists[arg[c]])]
          /\ it' = [it EXCEPT ![c] = it[c] + 1]
          /\ lists' = [lists EXCEPT ![arg[c]] = Tail(@)]
          /\ pc' = [pc EXCEPT ![c] = "try"]
     ELSE /\ pc' = [pc EXCEPT ![c] = "return"]
          /\ UNCHANGED <<i, fmt, it, lists>>
  /\ UNCHANGED <<arg, size, result, examined, entry, prev>>

\* ForNext with the bug of a loop position kept in one module-level
\* variable that every call advances.
ForNextShared(c) ==
  /\ pc[c] = "for"
  /\ IF it[c] < Len(lists[arg[c]])
     THEN /\ i' = [i EXCEPT ![c] = it[c]]
          /\ fmt' = [fmt EXCEPT ![c] = lists[arg[c]][it[c] + 1]]
          /\ it' = [d \in Callers |-> it[c] + 1]
          /\ pc' = [pc EXCEPT ![c] = "try"]
     ELSE /\ pc' = [pc EXCEPT ![c] = "return"]
          /\ UNCHANGED <<i, fmt, it>>
  /\ UNCHANGED <<lists, arg, size, result, examined, entry, prev>>

\* ForNext with the bug of scanning from the end
\* (enumerate over the reversed indices).
ForNextReversed(c) ==
  /\ pc[c] = "for"
  /\ IF it[c] < Len(lists[arg[c]])
     THEN /\ i' = [i EXCEPT ![c] = Len(lists[arg[c]]) - 1 - it[c]]
          /\ fmt' = [fmt EXCEPT ![c] = lists[arg[c]][Len(lists[arg[c]]) - it[c]]]
          /\ it' = [it EXCEPT ![c] = it[c] + 1]
          /\ pc' = [pc EXCEPT ![c] = "try"]
     ELSE /\ pc' = [pc EXCEPT ![c] = "return"]
          /\ UNCHANGED <<i, fmt, it>>
  /\ UNCHANGED <<lists, arg, size, result, examined, entry, prev>>

\* Line 18: for i, fmt in enumerate(fmt_list): the next item, or the end of
\* the loop when the iterator is exhausted.
ForNext(c) ==
  /\ pc[c] = "for"
  /\ IF it[c] < Len(lists[arg[c]])
     THEN /\ i' = [i EXCEPT ![c] = it[c]]
          /\ fmt' = [fmt EXCEPT ![c] = lists[arg[c]][it[c] + 1]]
          /\ it' = [it EXCEPT ![c] = it[c] + 1]
          /\ pc' = [pc EXCEPT ![c] = "try"]
     ELSE /\ pc' = [pc EXCEPT ![c] = "return"]
          /\ UNCHANGED <<i, fmt, it>>
  /\ UNCHANGED <<lists, arg, size, result, examined, entry, prev>>

\* TrySize with the bug of a default for a missing key
\* (size = fmt.get('size', 0)).
TrySizeDefault0(c) ==
  /\ pc[c] = "try"
  /\ examined' = [examined EXCEPT ![c] = Append(@, i[c])]
  /\ size' = [size EXCEPT ![c] =
               IF HasKey(fmt[c], "size") THEN GetItem(fmt[c], "size")
               ELSE PyInt(0)]
  /\ pc' = [pc EXCEPT ![c] = "if"]
  /\ UNCHANGED <<lists, arg, it, i, fmt, result, entry, prev>>

\* Lines 19-22: size = fmt['size'], and on KeyError continue.
TrySize(c) ==
  /\ pc[c] = "try"
  /\ examined' = [examined EXCEPT ![c] = Append(@, i[c])]
  /\ IF HasKey(fmt[c], "size")
     THEN /\ size' = [size EXCEPT ![c] = GetItem(fmt[c], "size")]
          /\ pc' = [pc EXCEPT ![c] = "if"]
     ELSE /\ pc' = [pc EXCEPT ![c] = "for"]
          /\ UNCHANGED size
  /\ UNCHANGED <<lists, arg, it, i, fmt, result, entry, prev>>

\* IfVarlen with the bug of no exemption for the last index (if size == 0).
IfVarlenNoLastCheck(c) ==
  /\ pc[c] = "if"
  /\ IF PyEq(size[c], PyInt(0))
     THEN /\ result' = [result EXCEPT ![c] = Raised(FormatError(fmt[c]))]
          /\ pc' = [pc EXCEPT ![c] = "done"]
     ELSE /\ pc' = [pc EXCEPT ![c] = "for"]
          /\ UNCHANGED result
  /\ UNCHANGED <<lists, arg, it, i, fmt, size, examined, entry, prev>>

\* IfVarlen with the bug of `return True` indented into the loop body.
IfVarlenEarlyReturn(c) ==
  /\ pc[c] = "if"
  /\ IF PyEq(size[c], PyInt(0)) /\ i[c] # Len(lists[arg[c]]) - 1
     THEN /\ result' = [result EXCEPT ![c] = Raised(FormatError(fmt[c]))]
          /\ pc' = [pc EXCEPT ![c] = "done"]
     ELSE /\ pc' = [pc EXCEPT ![c] = "return"]
          /\ UNCHANGED result
  /\ UNCHANGED <<lists, arg, it, i, fmt, size, examined, entry, prev>>

\* IfVarlen with the bug of recording the error and scanning on.
IfVarlenKeepsScanning(c) ==
  /\ pc[c] = "if"
  /\ IF PyEq(size[c], PyInt(0)) /\ i[c] # Len(lists[arg[c]]) - 1
     THEN result' = [result EXCEPT ![c] = Raised(FormatError(fmt[c]))]
     ELSE UNCHANGED result
  /\ pc' = [pc EXCEPT ![c] = "for"]
  /\ UNCHANGED <<lists, arg, it, i, fmt, size, examined, entry, prev>>

\* IfVarlen with the bug of a truthiness test (if not size and ...).
IfVarlenNotSize(c) ==
  /\ pc[c] = "if"
  /\ IF (size[c].type = "NoneType" \/ (IsNumber(size[c]) /\ size[c].val = 0)
         \/ (size[c].type = "str" /\ size[c].val = ""))
        /\ i[c] # Len(lists[arg[c]]) - 1
     THEN /\ result' = [result EXCEPT ![c] = Raised(FormatError(fmt[c]))]
          /\ pc' = [pc EXCEPT ![c] = "done"]
     ELSE /\ pc' = [pc EXCEPT ![c] = "for"]
          /\ UNCHANGED result
  /\ UNCHANGED <<lists, arg, it, i, fmt, size, examined, entry, prev>>

\* Lines 24-29: if size == 0 and i != len(fmt_list)-1: raise FormatError.
IfVarlen(c) ==
  /\ pc[c] = "if"
  /\ IF PyEq(size[c], PyInt(0)) /\ i[c] # Len(lists[arg[c]]) - 1
     THEN /\ result' = [result EXCEPT ![c] = Raised(FormatError(fmt[c]))]
          /\ pc' = [pc EXCEPT ![c] = "done"]
     ELSE /\ pc' = [pc EXCEPT ![c] = "for"]
          /\ UNCHANGED result
  /\ UNCHANGED <<lists, arg, it, i, fmt, size, examined, entry, prev>>

\* Line 31: return True.
Return(c) ==
  /\ pc[c] = "return"
  /\ result' = [result EXCEPT ![c] = Returned(TRUE)]
  /\ pc' = [pc EXCEPT ![c] = "done"]
  /\ UNCHANGED <<lists, arg, it, i, fmt, size, examined, entry, prev>>

\* The caller takes the outcome of its call and is free to call again.
Finish(c) ==
  /\ pc[c] = "done"
  /\ prev' = [prev EXCEPT ![c] =
               [kind |-> "call", fmt_list |-> lists[arg[c]],
                outcome |-> result[c], examined |-> examined[c]]]
  /\ pc' = [pc EXCEPT ![c] = "idle"]
  /\ UNCHANGED <<lists, arg, it, i, fmt, size, result, examined, entry>>

\* One caller: it builds list "A" and calls check on it again and again.
Next ==
  \/ \E d \in Descriptors : AppendFmt("A", d)
  \/ Call(1, "A")
  \/ ForNext(1)
  \/ TrySize(1)
  \/ IfVarlen(1)
  \/ Return(1)
  \/ Finish(1)

Spec == Init /\ [][Next]_vars

\* Several callers, each making one call on one of two given lists, their
\* steps interleaved in any order.
ConcInit ==
  /\ lists \in [ListIds -> ConcLists]
  /\ pc = [c \in Callers |-> "idle"]
  /\ arg = [c \in Callers |-> "A"]
  /\ it = [c \in Callers |-> 0]
  /\ i = [c \in Callers |-> Unbound]
  /\ fmt = [c \in Callers |-> Unbound]
  /\ size = [c \in Callers |-> Unbound]
  /\ result = [c \in Callers |-> NoResult]
  /\ examined = [c \in Callers |-> << >>]
  /\ entry = [c \in Callers |-> lists]
  /\ prev = [c \in Callers |-> NoCall]

ConcNext ==
  \E c \in Callers :
    \/ \E l \in ListIds : Call(c, l)
    \/ ForNext(c)
    \/ TrySize(c)
    \/ IfVarlen(c)
    \/ Return(c)

ConcSpec == ConcInit /\ [][ConcNext]_vars

---------------------------------------------------------------------------
\* Vocabulary of the properties.

\* The value v is a number equal to 0 (0, 0.0 or False).
NumericallyZero(v) == v.type \in {"int", "float", "bool"} /\ v.val = 0

\* bool(v) is False: a zero number, None or the empty string.
Falsy(v) ==
  \/ NumericallyZero(v)
  \/ v.type = "NoneType"
  \/ (v.type = "str" /\ v.val = "")

\* The descriptor d has a `size` key whose value equals 0.
SizeZero(d) == HasKey(d, "size") /\ NumericallyZero(GetItem(d, "size"))

\* The 0-based indices of L, other than the last, that hold a size-0
\* descriptor.
Misplaced(L) == {k \in 0 .. Len(L) - 2 : SizeZero(L[k + 1])}

Lowest(S) == CHOOSE k \in S : \A j \in S : k <= j

UpTo(n) == [j \in 1 .. n |-> j - 1]

IsPrefix(P, L) == Len(P) <= Len(L) /\ SubSeq(L, 1, Len(P)) = P

InCall(c) == pc[c] \in {"for", "try", "if", "return"}

\* The list caller c's call was given.
Given(c) == lists[arg[c]]

\* C1: when a call of check(L) has ended, it returned True if and only if no
\* size-0 descriptor of L sits at an index other than the last; otherwise it
\* raised FormatError and returned no value.
C1_ReturnsTrueIffNoMisplaced ==
  \A c \in Callers :
    pc[c] = "done" =>
      /\ result[c].kind \in {"return", "raise"}
      /\ (result[c] = Returned(TRUE)) <=> (Misplaced(Given(c)) = {})
      /\ (Misplaced(Given(c)) # {}) =>
           /\ result[c].kind = "raise"
           /\ result[c].exc.type = "FormatError"

\* A call on [{"size": 4}, {"size": 0}] has returned True.
C1_Witness ==
  /\ pc[1] = "done"
  /\ lists["A"] = << SizeOnly(PyInt(4)), SizeOnly(PyInt(0)) >>
  /\ result[1] = Returned(TRUE)

\* C2: when L holds a size-0 descriptor at an index other than the last,
\* check(L) ends with FormatError, raised at the lowest such index k, and
\* the text of the error is the one built from L[k] and from no other
\* descriptor.
C2_ErrorCarriesLowestMisplaced ==
  \A c \in Callers :
    (pc[c] = "done" /\ Misplaced(Given(c)) # {}) =>
      LET k == Lowest(Misplaced(Given(c))) IN
        /\ result[c].kind = "raise"
        /\ i[c] = k
        /\ result[c].exc.message = ErrorMessage(Given(c)[k + 1])
        /\ \A d \in Descriptors :
             ErrorMessage(d) = result[c].exc.message => d = Given(c)[k + 1]

\* A call on a list with two different misplaced size-0 descriptors has
\* raised.
C2_Witness ==
  /\ pc[1] = "done"
  /\ lists["A"] =
       << SizeAndName(PyInt(0)), SizeOnly(PyInt(0)), SizeOnly(PyInt(4)) >>
  /\ result[1].kind = "raise"

\* C3: a descriptor without a `size` key never makes check fail: the
\* descriptor a FormatError is raised for has a `size` key whose value
\* equals 0, and so has every descriptor its text can come from; and a
\* list made only of descriptors without `size` returns True.
C3_NoSizeNeverFails ==
  \A c \in Callers :
    pc[c] = "done" =>
      /\ result[c].kind = "raise" =>
           /\ SizeZero(fmt[c])
           /\ fmt[c] = Given(c)[i[c] + 1]
           /\ \A d \in Descriptors :
                ErrorMessage(d) = result[c].exc.message => SizeZero(d)
      /\ (\A j \in 1 .. Len(Given(c)) : ~HasKey(Given(c)[j], "size")) =>
           result[c] = Returned(TRUE)

\* A call on [{"name": "a"}, {"name": "a"}] has returned True.
C3_Witness ==
  /\ pc[1] = "done"
  /\ lists["A"] = << NameOnly, NameOnly >>
  /\ result[1] = Returned(TRUE)

\* C4: a list check returned True for holds at most one size-0 descriptor,
\* and that one, if any, at the last index.
C4_AcceptedHasAtMostOneVarlenLast ==
  \A c \in Callers :
    (pc[c] = "done" /\ result[c] = Returned(TRUE)) =>
      LET zeros == {j \in 1 .. Len(Given(c)) : SizeZero(Given(c)[j])} IN
        /\ Cardinality(zeros) <= 1
        /\ \A j \in zeros : j = Len(Given(c))

\* A call on a list of three whose only size-0 descriptor is the last has
\* returned True.
C4_Witness ==
  /\ pc[1] = "done"
  /\ result[1] = Returned(TRUE)
  /\ Len(lists["A"]) = 3
  /\ SizeZero(lists["A"][3])

\* C5: a call of check on the list the caller's previous call was given,
\* unmodified since, ends as the previous call did: both return True, or
\* both raise FormatError with the same text.
C5_SecondCallSameOutcome ==
  \A c \in Callers :
    (pc[c] = "done" /\ prev[c].kind = "call" /\ prev[c].fmt_list = Given(c))
      => result[c] = prev[c].outcome

\* A second call on the same list of two has raised.
C5_Witness ==
  /\ pc[1] = "done"
  /\ prev[1].kind = "call"
  /\ prev[1].fmt_list = lists["A"]
  /\ Len(lists["A"]) = 2
  /\ result[1].kind = "raise"

\* C6: from the start of a call to its end, whether it returns or raises,
\* every list object is as it was when the call began: the same length,
\* the same descriptors in the same order, with the same keys and values.
C6_InputUnchanged ==
  \A c \in Callers :
    (InCall(c) \/ pc[c] = "done") => lists = entry[c]

\* A call on a list of two has raised and the list is as it was.
C6_Witness ==
  /\ pc[1] = "done"
  /\ result[1].kind = "raise"
  /\ Len(lists["A"]) = 2
  /\ lists = entry[1]

\* C7: with the steps of several calls interleaved in any order, each call
\* ends as check does on its list when run alone.
C7_ConcurrentSameAsAlone ==
  \A c \in Callers :
    /\ pc[c] = "done" => result[c] = check(Given(c))
    /\ InCall(c) => result[c] = NoResult
    /\ lists = entry[c]

\* One caller's call has raised while another's, on the same list, is in
\* the middle of its scan.
C7_Witness ==
  /\ pc[1] = "done"
  /\ result[1].kind = "raise"
  /\ pc[2] = "if"
  /\ i[2] = 0
  /\ arg[1] = arg[2]

\* C8: a call examines the indices 0, 1, 2, ... in this order, each once;
\* while it scans it has raised nothing; it raises at the first misplaced
\* size-0 descriptor, having examined no index beyond it; it returns True
\* only with every index examined and none misplaced.
C8_SinglePassEarlyExit ==
  \A c \in Callers :
    /\ (InCall(c) \/ pc[c] = "done") =>
         /\ examined[c] = UpTo(Len(examined[c]))
         /\ Len(examined[c]) <= Len(Given(c))
    /\ InCall(c) =>
         /\ result[c] = NoResult
         /\ \A j \in 1 .. Len(examined[c]) - 1 : examined[c][j] \notin Misplaced(Given(c))
    /\ (pc[c] = "done" /\ result[c].kind = "raise") =>
         /\ Misplaced(Given(c)) # {}
         /\ examined[c] = UpTo(Lowest(Misplaced(Given(c))) + 1)
    /\ (pc[c] = "done" /\ result[c].kind = "return") =>
         /\ examined[c] = UpTo(Len(Given(c)))
         /\ Misplaced(Given(c)) = {}

\* A call on a list of three has raised having examined index 0 only.
C8_Witness ==
  /\ pc[1] = "done"
  /\ result[1].kind = "raise"
  /\ Len(lists["A"]) = 3
  /\ examined[1] = << 0 >>

\* C9: a `size` that is present and falsy counts as size 0 only when it is
\* numerically equal to 0: with every `size` before the last index non-zero
\* or falsy but not a zero number (None, ''), check returns True; a falsy
\* `size` that is a zero number before the last index makes it raise, and
\* the descriptor it raises for never has a None or '' size.
C9_FalsyOnlyIfNumericallyZero ==
  \A c \in Callers :
    pc[c] = "done" =>
      LET L == Given(c)
          before == {j \in 1 .. Len(L) - 1 : HasKey(L[j], "size")}
      IN
        /\ (\A j \in before :
              LET v == GetItem(L[j], "size") IN
                ~Falsy(v) \/ ~NumericallyZero(v))
             => result[c] = Returned(TRUE)
        /\ (\E j \in before :
              LET v == GetItem(L[j], "size") IN
                Falsy(v) /\ NumericallyZero(v))
             => result[c].kind = "raise"
        /\ result[c].kind = "raise" =>
             LET v == GetItem(fmt[c], "size") IN
               Falsy(v) /\ NumericallyZero(v)

\* A call on a list that starts with {"size": None} and {"size": ''} has
\* returned True.
C9_Witness ==
  /\ pc[1] = "done"
  /\ Len(lists["A"]) = 3
  /\ lists["A"][1] = SizeOnly(PyNone)
  /\ lists["A"][2] = SizeOnly(PyStr(""))
  /\ result[1] = Returned(TRUE)

\* C10: when the list of the caller's previous call is a prefix of the list
\* of this call: if the previous call raised, this call raises the same
\* error at the same index; if this call returns True, so did the previous
\* one.
C10_RejectionPreservedByAppending ==
  \A c \in Callers :
    (pc[c] = "done" /\ prev[c].kind = "call"
       /\ IsPrefix(prev[c].fmt_list, Given(c))) =>
      /\ prev[c].outcome.kind = "raise" =>
           /\ result[c] = prev[c].outcome
           /\ examined[c] = prev[c].examined
      /\ result[c] = Returned(TRUE) => prev[c].outcome = Returned(TRUE)

\* A call on a list has raised as the previous call did on a list one
\* descriptor shorter.
C10_Witness ==
  /\ pc[1] = "done"
  /\ prev[1].kind = "call"
  /\ prev[1].outcome.kind = "raise"
  /\ Len(lists["A"]) = Len(prev[1].fmt_list) + 1
  /\ result[1] = prev[1].outcome

====
